---- MODULE Spec2Model ----
(***************************************************************************)
(* A model of collection.go of epos: a Collection keeps JSON records in a  *)
(* diskv store under decimal identifier keys, keeps the next identifier    *)
(* under the key "_next_id" (varint encoded), and rebuilds one in-memory   *)
(* index per file of its index directory when it is opened.                *)
(*                                                                         *)
(* Strings are sequences of one-character strings, byte slices are         *)
(* sequences of numbers 0..255.  Id is int64 in the code; the model caps   *)
(* the counter at MaxId, far below 2^63, so no addition wraps.             *)
(***************************************************************************)
EXTENDS Integers, Sequences, FiniteSets, TLC

VARIABLES
    store,      \* the diskv store of the collection: key -> bytes
    files,      \* the index directory: field (file name) -> log items
    opened,     \* TRUE once openColl has returned a *Collection
    indexes,    \* Collection.indexes: field -> index
    proc,       \* position and locals of each caller inside Insert
    ret,        \* what the last operation returned
    ids,        \* the identifiers returned by successful Inserts, in order
    rolled,     \* TRUE once some Insert has rolled its identifier back
    loads,      \* per field, the loadIndex calls that registered an index
                \* in the current Collection
    shard       \* a key, and the path segments transformFunc gave for it

vars == <<store, files, opened, indexes, proc, ret, ids, rolled, loads, shard>>

----------------------------------------------------------------------------
(* Bounds of the model.                                                    *)

MaxId == 3          \* Insert is not started once the counter reached MaxId
MaxInserts == 3     \* at most this many successful Inserts are recorded
MaxLog == 2         \* longest index log of the field "f"
MaxLoads == 2       \* loadIndex calls counted per field and Collection
MaxKeyLen == 5      \* longest key handed to transformFunc

Values == {"a", "b"}            \* values a caller stores
BadValue == "chan"              \* a value json.Marshal rejects
Fields == {"f", "g"}            \* file names of the index directory
FieldValues == {"x", "y"}       \* field values of index entries
EntIds == {1, 2}                \* identifiers that index entries mention
Procs == {"p1", "p2"}           \* concurrent callers of Insert
KeyChars == {"0", "7", "_"}     \* characters of the keys handed to transformFunc

----------------------------------------------------------------------------
(* Keys and encodings.                                                     *)

NextIdKey == <<"_", "n", "e", "x", "t", "_", "i", "d">>

Digits == <<"0", "1", "2", "3", "4", "5", "6", "7", "8", "9">>

RECURSIVE FmtNat(_)
FmtNat(n) == IF n < 10 THEN <<Digits[n + 1]>>
             ELSE Append(FmtNat(n \div 10), Digits[(n % 10) + 1])

\* fmt.Sprintf("%d", id)
FmtD(id) == IF id < 0 THEN <<"-">> \o FmtNat(-id) ELSE FmtNat(id)

\* A Sprintf that pads with the space character
RECURSIVE Sprintf04sSpace(_)
Sprintf04sSpace(s) == IF Len(s) >= 4 THEN s ELSE Sprintf04sSpace(<<" ">> \o s)

\* fmt.Sprintf("%04s", s): s padded on the left to width 4; the flag 0
\* makes the padding character "0"
RECURSIVE Sprintf04s(_)
Sprintf04s(s) == IF Len(s) >= 4 THEN s ELSE Sprintf04s(<<"0">> \o s)

\* A transformFunc that returns the two segments in the order of the key
transformFuncInOrder(s) ==
    IF s = NextIdKey THEN <<>>
    ELSE LET data == IF Len(s) < 4 THEN Sprintf04s(s)
                     ELSE SubSeq(s, Len(s) - 3, Len(s))
         IN  <<SubSeq(data, 1, 2), SubSeq(data, 3, 4)>>

\* transformFunc: no segments for "_next_id"; else the last four characters
\* of the key, padded when it is shorter, as data[2:4], data[0:2]
transformFunc(s) ==
    IF s = NextIdKey THEN <<>>
    ELSE LET data == IF Len(s) < 4 THEN Sprintf04s(s)
                     ELSE SubSeq(s, Len(s) - 3, Len(s))
         IN  <<SubSeq(data, 3, 4), SubSeq(data, 1, 2)>>

RECURSIVE PutUvarint(_)
PutUvarint(x) == IF x < 128 THEN <<x>>
                 ELSE <<(x % 128) + 128>> \o PutUvarint(x \div 128)

\* binary.PutVarint: zig-zag, then base 128 with a continuation bit
PutVarint(x) == PutUvarint(IF x < 0 THEN (-2 * x) - 1 ELSE 2 * x)

RECURSIVE Pow128(_)
Pow128(i) == IF i = 0 THEN 1 ELSE 128 * Pow128(i - 1)

RECURSIVE UvarintFrom(_, _, _)
UvarintFrom(buf, i, x) ==
    IF i > Len(buf) THEN 0      \* buffer too small: binary.Uvarint gives 0
    ELSE IF buf[i] < 128 THEN x + buf[i] * Pow128(i - 1)
    ELSE UvarintFrom(buf, i + 1, x + (buf[i] - 128) * Pow128(i - 1))

\* binary.Varint; the byte count it also returns is dropped by the caller
Varint(buf) == LET ux == UvarintFrom(buf, 1, 0)
               IN  IF ux % 2 = 1 THEN -(ux \div 2) - 1 ELSE ux \div 2

CharCode(v) == IF v = "a" THEN 97 ELSE 98

\* json.Marshal of a caller's value
Marshal(v) == IF v = BadValue THEN [err |-> "marshal", data |-> <<>>]
              ELSE [err |-> "nil", data |-> <<34, CharCode(v), 34>>]

----------------------------------------------------------------------------
(* The store: diskv's Read, Write and Erase on the collection's directory. *)

StoreHas(st, key) == key \in DOMAIN st

\* store.Read: the bytes, or an error and no bytes when the key is unset
StoreRead(st, key) == IF StoreHas(st, key) THEN [err |-> "nil", data |-> st[key]]
                      ELSE [err |-> "notfound", data |-> <<>>]

\* store.Write when the write succeeds (ok) or fails and writes nothing
StoreWrite(st, key, data, ok) ==
    IF ok THEN [k \in DOMAIN st \cup {key} |-> IF k = key THEN data ELSE st[k]]
    ELSE st

\* store.Erase: removing a key that is not there is an error
StoreErase(st, key, ok) ==
    IF ok /\ StoreHas(st, key) THEN [k \in DOMAIN st \ {key} |-> st[k]] ELSE st

\* The counter as the code decodes it: 0 when "_next_id" is unset
Counter(st) == Varint(StoreRead(st, NextIdKey).data)

\* The record keys of the store
RecordKeys(st) == DOMAIN st \ {NextIdKey}

----------------------------------------------------------------------------
(* The identifier counter.                                                 *)

\* setNextId: the error of store.Write is dropped
setNextId(st, next_id, ok) == StoreWrite(st, NextIdKey, PutVarint(next_id), ok)

\* A getNextId that does not persist the incremented counter
getNextIdNoPersist(st, ok) ==
    [id |-> Varint(StoreRead(st, NextIdKey).data), store |-> st]

\* getNextId: the errors of store.Read and of setNextId are dropped
getNextId(st, ok) ==
    LET data == StoreRead(st, NextIdKey).data
        next_id == Varint(data)
    IN  [id |-> next_id, store |-> setNextId(st, next_id + 1, ok)]

\* An Insert that rolls back to the identifier before the one it generated
rollbackBelow(st, id, ok) == setNextId(st, id - 1, ok)

\* An Insert that does not roll back
rollbackNone(st, id, ok) == st

\* Insert's roll back of the identifier it generated
rollback(st, id, ok) == setNextId(st, id, ok)

\* An openColl that sets _next_id to 1 whether it is set or not
initNextIdAlways(st, ok) == setNextId(st, 1, ok)

\* openColl: if _next_id is unset, then set it to 1
initNextId(st, ok) == IF StoreRead(st, NextIdKey).err # "nil"
                      THEN setNextId(st, 1, ok) ELSE st

----------------------------------------------------------------------------
(* Index logs.  A file of the index directory is a sequence of items: the  *)
(* encoded entries, in file order; an item with bad = TRUE stands for      *)
(* bytes that do not decode to an entry.  File positions count items.      *)

Item(v, id, del) == [value |-> v, id |-> id, deleted |-> del, bad |-> FALSE]

BadItem == [value |-> "x", id |-> 0, deleted |-> FALSE, bad |-> TRUE]

Items == {Item(v, id, del) : v \in FieldValues, id \in EntIds,
                             del \in BOOLEAN} \cup {BadItem}

RECURSIVE LogsUpTo(_)
LogsUpTo(n) == IF n = 0 THEN {<<>>}
               ELSE LET shorter == LogsUpTo(n - 1)
                    IN  shorter \cup {Append(l, i) : l \in shorter, i \in Items}

\* indexEntry.ReadFrom at position fpos: the entry and the position after
\* it, io.EOF at the end of the file, another error on undecodable bytes
ReadFrom(file, fpos) ==
    IF fpos > Len(file) THEN [err |-> "EOF", next |-> fpos]
    ELSE IF file[fpos].bad THEN [err |-> "corrupt", next |-> fpos]
    ELSE [err |-> "nil", next |-> fpos + 1,
          entry |-> [value |-> file[fpos].value, id |-> file[fpos].id,
                     deleted |-> file[fpos].deleted, fpos |-> 0]]

\* indexEntry.Deleted
Deleted(entry) == entry.deleted

\* newIndex: an index with no mappings
newIndex == <<>>

\* index.Add: insert the mapping fieldValue -> identifier
Add(idx, entry) ==
    [v \in DOMAIN idx \cup {entry.value} |->
        (IF v \in DOMAIN idx THEN idx[v] ELSE {})
            \cup (IF v = entry.value THEN {entry.id} ELSE {})]

\* The mappings of an index as (fieldValue, identifier) pairs
Mappings(idx) == UNION {{<<v, id>> : id \in idx[v]} : v \in DOMAIN idx}

\* A loadIndex that reads on in the file it left open at its end when the
\* field has an index already
StartPosResume(idxs, dir, field) ==
    IF field \in DOMAIN idxs THEN Len(dir[field]) + 1 ELSE 1

\* The position os.Open leaves the freshly opened file of field at
StartPos(idxs, dir, field) == 1

\* A loop that adds the deleted entries and skips the others
RECURSIVE LoadLoopInverted(_, _, _)
LoadLoopInverted(file, fpos, idx) ==
    LET r == ReadFrom(file, fpos)
    IN  IF r.err # "nil"
        THEN IF r.err = "EOF" THEN [err |-> "nil", idx |-> idx]
             ELSE [err |-> r.err, idx |-> idx]
        ELSE IF Deleted(r.entry)
             THEN LoadLoopInverted(file, r.next, Add(idx, [r.entry EXCEPT !.fpos = fpos]))
             ELSE LoadLoopInverted(file, r.next, idx)

\* The for loop of loadIndex from position fpos with idx built so far
RECURSIVE LoadLoop(_, _, _)
LoadLoop(file, fpos, idx) ==
    LET r == ReadFrom(file, fpos)
    IN  IF r.err # "nil"
        THEN IF r.err = "EOF" THEN [err |-> "nil", idx |-> idx]
             ELSE [err |-> r.err, idx |-> idx]
        ELSE IF ~Deleted(r.entry)
             THEN LoadLoop(file, r.next, Add(idx, [r.entry EXCEPT !.fpos = fpos]))
             ELSE LoadLoop(file, r.next, idx)

\* A loadIndex that registers the index before the loop, so that a decode
\* error leaves the index built so far registered
loadIndexPartial(idxs, dir, field, openOk) ==
    IF ~openOk \/ field \notin DOMAIN dir THEN [err |-> "open", indexes |-> idxs]
    ELSE LET r == LoadLoop(dir[field], StartPos(idxs, dir, field), newIndex)
         IN  [err |-> r.err,
              indexes |-> [g \in DOMAIN idxs \cup {field} |->
                              IF g = field THEN r.idx ELSE idxs[g]]]

\* loadIndex on the indexes idxs of a collection whose index directory is
\* dir; openOk: os.Open succeeds.  Gives the error and the indexes after.
loadIndex(idxs, dir, field, openOk) ==
    IF ~openOk \/ field \notin DOMAIN dir THEN [err |-> "open", indexes |-> idxs]
    ELSE LET r == LoadLoop(dir[field], StartPos(idxs, dir, field), newIndex)
         IN  IF r.err # "nil" THEN [err |-> r.err, indexes |-> idxs]
             ELSE [err |-> "nil",
                   indexes |-> [g \in DOMAIN idxs \cup {field} |->
                                   IF g = field THEN r.idx ELSE idxs[g]]]

\* The files of the index directory in the lexical order filepath.Walk
\* visits them
WalkOrder == <<"f", "g">>

\* loadIndexes: loadIndex for every file of the directory from the i-th of
\* WalkOrder on; a failed loadIndex is logged and the walk goes on
RECURSIVE loadIndexesFrom(_, _, _, _)
loadIndexesFrom(idxs, dir, openOks, i) ==
    IF i > Len(WalkOrder) THEN idxs
    ELSE IF WalkOrder[i] \notin DOMAIN dir
         THEN loadIndexesFrom(idxs, dir, openOks, i + 1)
         ELSE loadIndexesFrom(
                  loadIndex(idxs, dir, WalkOrder[i], WalkOrder[i] \in openOks).indexes,
                  dir, openOks, i + 1)

loadIndexes(idxs, dir, openOks) == loadIndexesFrom(idxs, dir, openOks, 1)

----------------------------------------------------------------------------
(* The state before the collection is first opened: an empty store, and an *)
(* index directory that is one of dirs.                                    *)

Idle == [pc |-> "idle", id |-> 0, data |-> <<>>]

Ret(op, id, err) == [op |-> op, id |-> id, err |-> err]

\* The logs the file "g" is drawn from
GLogs == {<<>>, <<Item("x", 1, FALSE)>>, <<BadItem>>,
          <<Item("y", 2, FALSE), Item("y", 2, TRUE)>>}

\* The index directories within the bounds: a log per file that is there
AllDirs == {d \in UNION {[S -> LogsUpTo(MaxLog)] : S \in SUBSET Fields} :
               "g" \in DOMAIN d => d["g"] \in GLogs}

\* Two index directories: an empty one, and one with a log per field
FewDirs == {<<>>,
            [g \in Fields |-> IF g = "f" THEN <<Item("x", 1, FALSE), Item("y", 2, FALSE)>>
                              ELSE <<Item("x", 1, FALSE)>>]}

InitWith(dirs) ==
    /\ store = <<>>
    /\ files \in dirs
    /\ opened = FALSE
    /\ indexes = <<>>
    /\ proc = [p \in Procs |-> Idle]
    /\ ret = Ret("none", 0, "nil")
    /\ ids = <<>>
    /\ rolled = FALSE
    /\ loads = [g \in Fields |-> 0]
    /\ shard = [key |-> <<>>, done |-> FALSE, segs |-> <<>>]

AllIdle == \A p \in Procs : proc[p].pc = "idle"

----------------------------------------------------------------------------
(* The operations of a collection, one caller at a time.                   *)

\* openColl; ctrOk: the write of "_next_id" succeeds, openOks: the files
\* os.Open can open.  os.Mkdir leaves an index directory that exists as is.
openColl(ctrOk, openOks) ==
    /\ AllIdle
    /\ indexes' = loadIndexes(newIndex, files, openOks)
    /\ store' = initNextId(store, ctrOk)
    /\ opened' = TRUE
    /\ loads' = [g \in Fields |-> IF g \in DOMAIN indexes' THEN 1 ELSE 0]
    /\ ret' = Ret("openColl", 0, "nil")
    /\ UNCHANGED <<files, proc, ids, rolled, shard>>

\* openColl where the walk of the index directory may report an error.
\* mkdirOk: os.Mkdir succeeds (its error is dropped); lstatErr: "none", or
\* the path os.Lstat fails for, "root" (the index directory itself, as when
\* it could not be created) or a file of it.  filepath.Walk hands that path
\* to the walk function with a nil info, and info.Mode() panics: the process
\* ends with no collection, before "_next_id" is looked at.
openCollWalk(mkdirOk, lstatErr, ctrOk, openOks) ==
    IF lstatErr = "none"
    THEN openColl(ctrOk, openOks)
    ELSE /\ AllIdle
         /\ lstatErr \in {"root"} \cup DOMAIN files
         /\ opened' = FALSE
         /\ indexes' = newIndex
         /\ loads' = [g \in Fields |-> 0]
         /\ ret' = Ret("openColl", 0, "panic")
         /\ UNCHANGED <<store, files, proc, ids, rolled, shard>>

\* loadIndex(path, field) on the open collection
LoadIndex(field, openOk) ==
    /\ opened /\ AllIdle
    /\ loads[field] < MaxLoads
    /\ LET r == loadIndex(indexes, files, field, openOk)
       IN  /\ indexes' = r.indexes
           /\ ret' = Ret("loadIndex", 0, r.err)
           /\ loads' = IF r.err = "nil" THEN [loads EXCEPT ![field] = @ + 1] ELSE loads
    /\ UNCHANGED <<store, files, opened, proc, ids, rolled, shard>>

\* An Insert that takes its identifier before it serializes the value
InsertAllocFirst(value, ctrOk1, recOk, ctrOk2) ==
    /\ opened /\ AllIdle
    /\ Counter(store) < MaxId
    /\ Len(ids) < MaxInserts
    /\ LET m == Marshal(value)
           g == getNextId(store, ctrOk1)
           written == StoreWrite(g.store, FmtD(g.id), m.data, recOk)
       IN  IF m.err # "nil"
           THEN /\ store' = g.store
                /\ ret' = Ret("Insert", 0, m.err)
                /\ UNCHANGED <<ids, rolled>>
           ELSE IF recOk
           THEN /\ store' = written
                /\ ret' = Ret("Insert", g.id, "nil")
                /\ ids' = Append(ids, g.id)
                /\ UNCHANGED rolled
           ELSE /\ store' = rollback(written, g.id, ctrOk2)
                /\ ret' = Ret("Insert", 0, "write")
                /\ rolled' = TRUE
                /\ UNCHANGED ids
    /\ UNCHANGED <<files, opened, indexes, proc, loads, shard>>

\* Insert; ctrOk1, recOk, ctrOk2: the writes of the counter, of the record
\* and of the rolled back counter succeed
Insert(value, ctrOk1, recOk, ctrOk2) ==
    /\ opened /\ AllIdle
    /\ Counter(store) < MaxId
    /\ Len(ids) < MaxInserts
    /\ LET m == Marshal(value)
           g == getNextId(store, ctrOk1)
           written == StoreWrite(g.store, FmtD(g.id), m.data, recOk)
       IN  IF m.err # "nil"
           THEN /\ ret' = Ret("Insert", 0, m.err)
                /\ UNCHANGED <<store, ids, rolled>>
           ELSE IF recOk
           THEN /\ store' = written
                /\ ret' = Ret("Insert", g.id, "nil")
                /\ ids' = Append(ids, g.id)
                /\ UNCHANGED rolled
           ELSE /\ store' = rollback(written, g.id, ctrOk2)
                /\ ret' = Ret("Insert", 0, "write")
                /\ rolled' = TRUE
                /\ UNCHANGED ids
    /\ UNCHANGED <<files, opened, indexes, proc, loads, shard>>

Update(id, value, recOk) ==
    /\ opened /\ AllIdle
    /\ LET m == Marshal(value)
       IN  IF m.err # "nil"
           THEN /\ ret' = Ret("Update", 0, m.err)
                /\ UNCHANGED store
           ELSE /\ store' = StoreWrite(store, FmtD(id), m.data, recOk)
                /\ ret' = Ret("Update", 0, IF recOk THEN "nil" ELSE "write")
    /\ UNCHANGED <<files, opened, indexes, proc, ids, rolled, loads, shard>>

\* A Delete that also takes the identifier out of every index table
DeleteAndUnindex(id, eraseOk) ==
    /\ opened /\ AllIdle
    /\ store' = StoreErase(store, FmtD(id), eraseOk)
    /\ indexes' = [f \in DOMAIN indexes |->
                      [v \in DOMAIN indexes[f] |-> indexes[f][v] \ {id}]]
    /\ ret' = Ret("Delete", 0,
                  IF eraseOk /\ StoreHas(store, FmtD(id)) THEN "nil" ELSE "erase")
    /\ UNCHANGED <<files, opened, proc, ids, rolled, loads, shard>>

Delete(id, eraseOk) ==
    /\ opened /\ AllIdle
    /\ store' = StoreErase(store, FmtD(id), eraseOk)
    /\ ret' = Ret("Delete", 0,
                  IF eraseOk /\ StoreHas(store, FmtD(id)) THEN "nil" ELSE "erase")
    /\ UNCHANGED <<files, opened, indexes, proc, ids, rolled, loads, shard>>

AddIndex(field) ==
    /\ opened /\ AllIdle
    /\ ret' = Ret("AddIndex", 0, "adding index failed")
    /\ UNCHANGED <<store, files, opened, indexes, proc, ids, rolled, loads, shard>>

\* A delete that empties the whole map
WithoutAll(idxs, field) == [g \in {} |-> idxs[g]]

\* The indexes without the one of field: delete(c.indexes, field)
Without(idxs, field) == [g \in DOMAIN idxs \ {field} |-> idxs[g]]

\* os.Remove of the field's file succeeds when rmOk and the file is there
Removed(dir, field, rmOk) == rmOk /\ field \in DOMAIN dir

RemoveIndex(field, rmOk) ==
    /\ opened /\ AllIdle
    /\ indexes' = Without(indexes, field)
    /\ files' = IF Removed(files, field, rmOk) THEN Without(files, field) ELSE files
    /\ ret' = Ret("RemoveIndex", 0,
                  IF Removed(files, field, rmOk) THEN "nil" ELSE "remove")
    /\ loads' = [loads EXCEPT ![field] = 0]
    /\ UNCHANGED <<store, opened, proc, ids, rolled, shard>>

\* A Reindex that goes on to AddIndex whatever RemoveIndex returned
ReindexAlways(field, rmOk) ==
    /\ opened /\ AllIdle
    /\ indexes' = Without(indexes, field)
    /\ files' = IF Removed(files, field, rmOk) THEN Without(files, field) ELSE files
    /\ ret' = Ret("Reindex", 0, "adding index failed")
    /\ loads' = [loads EXCEPT ![field] = 0]
    /\ UNCHANGED <<store, opened, proc, ids, rolled, shard>>

Reindex(field, rmOk) ==
    /\ opened /\ AllIdle
    /\ indexes' = Without(indexes, field)
    /\ files' = IF Removed(files, field, rmOk) THEN Without(files, field) ELSE files
    /\ ret' = Ret("Reindex", 0,
                  IF Removed(files, field, rmOk) THEN "adding index failed"
                  ELSE "remove")
    /\ loads' = [loads EXCEPT ![field] = 0]
    /\ UNCHANGED <<store, opened, proc, ids, rolled, shard>>

Query ==
    /\ opened /\ AllIdle
    /\ ret' = Ret("Query", 0, "query failed")
    /\ UNCHANGED <<store, files, opened, indexes, proc, ids, rolled, loads, shard>>

QueryAll ==
    /\ opened /\ AllIdle
    /\ ret' = Ret("QueryAll", 0, "query failed")
    /\ UNCHANGED <<store, files, opened, indexes, proc, ids, rolled, loads, shard>>

Vacuum ==
    /\ opened /\ AllIdle
    /\ ret' = Ret("Vacuum", 0, "nil")
    /\ UNCHANGED <<store, files, opened, indexes, proc, ids, rolled, loads, shard>>

----------------------------------------------------------------------------
(* Insert step by step, for callers that run concurrently: json.Marshal,   *)
(* getNextId as one step, the write of the record, and the roll back       *)
(* (setNextId) as one step.                                                *)

InsBegin(p, value) ==
    /\ opened /\ proc[p].pc = "idle"
    /\ Counter(store) < MaxId
    /\ Len(ids) < MaxInserts
    /\ LET m == Marshal(value)
       IN  IF m.err # "nil"
           THEN /\ ret' = Ret("Insert", 0, m.err)
                /\ UNCHANGED proc
           ELSE /\ proc' = [proc EXCEPT ![p] = [pc |-> "alloc", id |-> 0, data |-> m.data]]
                /\ UNCHANGED ret
    /\ UNCHANGED <<store, files, opened, indexes, ids, rolled, loads, shard>>

InsAlloc(p, ctrOk) ==
    /\ proc[p].pc = "alloc"
    /\ LET g == getNextId(store, ctrOk)
       IN  /\ store' = g.store
           /\ proc' = [proc EXCEPT ![p].pc = "write", ![p].id = g.id]
    /\ UNCHANGED <<files, opened, indexes, ret, ids, rolled, loads, shard>>

InsWrite(p, recOk) ==
    /\ proc[p].pc = "write"
    /\ store' = StoreWrite(store, FmtD(proc[p].id), proc[p].data, recOk)
    /\ IF recOk
       THEN /\ ret' = Ret("Insert", proc[p].id, "nil")
            /\ ids' = Append(ids, proc[p].id)
            /\ proc' = [proc EXCEPT ![p] = Idle]
       ELSE /\ proc' = [proc EXCEPT ![p].pc = "rollback"]
            /\ UNCHANGED <<ret, ids>>
    /\ UNCHANGED <<files, opened, indexes, rolled, loads, shard>>

InsRollback(p, ctrOk) ==
    /\ proc[p].pc = "rollback"
    /\ store' = rollback(store, proc[p].id, ctrOk)
    /\ ret' = Ret("Insert", 0, "write")
    /\ rolled' = TRUE
    /\ proc' = [proc EXCEPT ![p] = Idle]
    /\ UNCHANGED <<files, opened, indexes, ids, loads, shard>>

----------------------------------------------------------------------------
(* Specifications.                                                         *)

Oks == {TRUE}       \* a write that cannot fail

OpenCollStep(ctrOks) ==
    \E ctrOk \in ctrOks, openOks \in SUBSET Fields : openColl(ctrOk, openOks)

InsertStep(ctrOks) ==
    \E value \in Values \cup {BadValue}, ctrOk1 \in ctrOks, recOk \in BOOLEAN,
       ctrOk2 \in ctrOks : Insert(value, ctrOk1, recOk, ctrOk2)

UpdateStep == \E id \in 1..MaxId, value \in Values \cup {BadValue}, recOk \in BOOLEAN :
                 Update(id, value, recOk)

DeleteStep == \E id \in 1..MaxId, eraseOk \in BOOLEAN : Delete(id, eraseOk)

AddIndexStep == \E field \in Fields : AddIndex(field)

RemoveIndexStep == \E field \in Fields, rmOk \in BOOLEAN : RemoveIndex(field, rmOk)

ReindexStep == \E field \in Fields, rmOk \in BOOLEAN : Reindex(field, rmOk)

LoadIndexStep == \E field \in Fields, openOk \in BOOLEAN : LoadIndex(field, openOk)

\* One caller at a time; the writes of records, os.Open and os.Remove may
\* fail, the writes of "_next_id" succeed.
Next ==
    \/ OpenCollStep(Oks)
    \/ InsertStep(Oks)
    \/ UpdateStep
    \/ DeleteStep
    \/ AddIndexStep
    \/ RemoveIndexStep
    \/ ReindexStep
    \/ Query
    \/ QueryAll
    \/ Vacuum

Spec == InitWith(FewDirs) /\ [][Next]_vars

\* One caller at a time; every write to the store may fail, the writes of
\* "_next_id" included.
NextCtrFail ==
    \/ OpenCollStep(BOOLEAN)
    \/ InsertStep(BOOLEAN)
    \/ UpdateStep
    \/ DeleteStep

SpecCtrFail == InitWith({<<>>}) /\ [][NextCtrFail]_vars

\* Concurrent callers of Insert; getNextId and the roll back are one step
\* each, the writes of records may fail, the writes of "_next_id" succeed.
NextConc ==
    \/ OpenCollStep(Oks)
    \/ \E p \in Procs, value \in Values \cup {BadValue} : InsBegin(p, value)
    \/ \E p \in Procs : InsAlloc(p, TRUE)
    \/ \E p \in Procs, recOk \in BOOLEAN : InsWrite(p, recOk)
    \/ \E p \in Procs : InsRollback(p, TRUE)

SpecConc == InitWith({<<>>}) /\ [][NextConc]_vars

\* One caller at a time, where os.Mkdir and the os.Lstat calls of the
\* walk of the index directory may fail when the collection is opened.
NextWalk ==
    \/ \E mkdirOk \in BOOLEAN, lstatErr \in {"none", "root"} \cup Fields,
          openOks \in SUBSET Fields : openCollWalk(mkdirOk, lstatErr, TRUE, openOks)
    \/ InsertStep(Oks)
    \/ DeleteStep
    \/ RemoveIndexStep

SpecWalk == InitWith(FewDirs) /\ [][NextWalk]_vars

\* The keys within the bounds, and "_next_id"
RECURSIVE KeysUpTo(_)
KeysUpTo(n) == IF n = 0 THEN {<<>>}
               ELSE LET shorter == KeysUpTo(n - 1)
                    IN  shorter \cup {Append(k, c) : k \in shorter, c \in KeyChars}

Keys == KeysUpTo(MaxKeyLen) \cup {NextIdKey}

\* The store asks transformFunc for the path segments of a key
Shard ==
    /\ ~shard.done
    /\ shard' = [shard EXCEPT !.done = TRUE, !.segs = transformFunc(shard.key)]
    /\ UNCHANGED <<store, files, opened, indexes, proc, ret, ids, rolled, loads>>

\* The next key is handed to transformFunc
NextKey ==
    /\ shard.done
    /\ \E k \in Keys : shard' = [key |-> k, done |-> FALSE, segs |-> <<>>]
    /\ UNCHANGED <<store, files, opened, indexes, proc, ret, ids, rolled, loads>>

NextShard ==
    \/ Shard
    \/ NextKey

\* transformFunc on every key within the bounds
SpecShard ==
    /\ InitWith({<<>>})
    /\ [][NextShard]_vars

\* Opening the collection over every index directory within the bounds,
\* and the operations on its indexes.
NextIndex ==
    \/ OpenCollStep(Oks)
    \/ LoadIndexStep
    \/ RemoveIndexStep

SpecIndex == InitWith(AllDirs) /\ [][NextIndex]_vars

----------------------------------------------------------------------------
(* Identifiers.                                                            *)

ConcurrentIdsDistinct ==
    \A i, j \in DOMAIN ids : i # j => ids[i] # ids[j]

\* C4: an Insert whose record write fails returns the error and the
\* identifier 0, stores no record, and leaves the counter at the identifier
\* it had allocated, which the next Insert allocates again.
FailedInsertRollsBack ==
    [][(ret'.op = "Insert" /\ ret'.err = "write")
        => /\ ret'.id = 0
           /\ RecordKeys(store') = RecordKeys(store)
           /\ \A k \in RecordKeys(store) : store'[k] = store[k]
           /\ Counter(store') = getNextId(store, TRUE).id
           /\ getNextId(store', TRUE).id = getNextId(store, TRUE).id]_vars

\* An Insert failed at the record write after an earlier one had succeeded
FailedInsertWitness ==
    /\ ret = Ret("Insert", 0, "write") /\ rolled
    /\ Len(ids) = 1 /\ Counter(store) = ids[1] + 1

\* C5: an Insert whose write of the incremented counter fails returns an
\* error, not a valid identifier.
CounterWriteErrorPropagates ==
    [][\A value \in Values, recOk \in BOOLEAN, ctrOk2 \in BOOLEAN :
          Insert(value, FALSE, recOk, ctrOk2) => ret'.err # "nil"]_vars

----------------------------------------------------------------------------
(* Index replay.                                                           *)

Corrupt(log) == \E i \in DOMAIN log : log[i].bad

NoTombstones(log) == \A i \in DOMAIN log : ~log[i].bad /\ ~log[i].deleted

PairAt(log, i) == <<log[i].value, log[i].id>>

\* The pairs whose latest entry in the log is not deleted
LivePairs(log) ==
    {PairAt(log, i) : i \in {i \in DOMAIN log :
        /\ ~log[i].deleted
        /\ \A j \in DOMAIN log :
              (j > i /\ PairAt(log, j) = PairAt(log, i)) => ~log[j].deleted}}

\* The pairs of the entries of the log that are not deleted
AddedPairs(log) == {PairAt(log, i) : i \in {i \in DOMAIN log : ~log[i].deleted}}

\* C7: the index replayed from a log holds only the mappings whose latest
\* log entry is not deleted: a mapping with a tombstone appended after it
\* is not in the index.
TombstoneCancels ==
    \A f \in DOMAIN indexes :
        f \in DOMAIN files => Mappings(indexes[f]) \subseteq LivePairs(files[f])

ReplayIdempotent ==
    /\ [](\A f \in DOMAIN indexes :
             f \in DOMAIN files /\ Mappings(indexes[f]) = AddedPairs(files[f]))
    /\ [][\A f \in Fields :
             (f \in DOMAIN indexes /\ \E openOk \in BOOLEAN : LoadIndex(f, openOk))
                => indexes' = indexes]_vars

\* loadIndex has replayed the log of "f" a second time
ReplayIdempotentWitness ==
    /\ loads["f"] = 2 /\ ret = Ret("loadIndex", 0, "nil")
    /\ Cardinality(Mappings(indexes["f"])) = 2

\* C10: when the log of a field has an undecodable entry, openColl
\* registers no index for that field, registers the indexes of the other
\* fields whose logs it can read, and returns with the counter set.
CorruptLogSkipped ==
    /\ [](\A f \in DOMAIN indexes : f \in DOMAIN files /\ ~Corrupt(files[f]))
    /\ [][\A openOks \in SUBSET Fields :
             openColl(TRUE, openOks)
                => /\ opened' /\ StoreHas(store', NextIdKey)
                   /\ \A f \in DOMAIN files :
                         /\ Corrupt(files[f]) => f \notin DOMAIN indexes'
                         /\ (~Corrupt(files[f]) /\ f \in openOks)
                               => /\ f \in DOMAIN indexes'
                                  /\ Mappings(indexes'[f]) = AddedPairs(files[f])]_vars

\* The collection is open, the log of "f" has an undecodable entry after
\* a live one and "f" has no index, while "g" has its index
CorruptLogSkippedWitness ==
    /\ opened /\ ret.op = "openColl" /\ StoreHas(store, NextIdKey)
    /\ "f" \in DOMAIN files /\ Len(files["f"]) = 2
    /\ ~files["f"][1].bad /\ ~files["f"][1].deleted /\ files["f"][2].bad
    /\ "f" \notin DOMAIN indexes
    /\ "g" \in DOMAIN indexes /\ Mappings(indexes["g"]) # {}

----------------------------------------------------------------------------
(* Opening, and the operations on indexes and records.                     *)

\* C11: no failure while the collection is opened ends the process: when
\* os.Mkdir fails or the walk reports an error for a path, openColl still
\* returns a usable collection.
OpenNeverPanics ==
    ret.op = "openColl" => (ret.err = "nil" /\ opened)

\* The tables of the fields other than field are the same before and after
OthersKept(field) ==
    \A g \in Fields \ {field} :
        /\ g \in DOMAIN indexes' <=> g \in DOMAIN indexes
        /\ g \in DOMAIN indexes => indexes'[g] = indexes[g]

\* C12: RemoveIndex(field) drops the field's table and deletes its file;
\* when the file cannot be removed it returns the error, the file stays and
\* the table stays dropped; the tables of all other fields are unchanged.
RemoveIndexDrops ==
    [][\A field \in Fields, rmOk \in BOOLEAN :
          RemoveIndex(field, rmOk) =>
              /\ field \notin DOMAIN indexes'
              /\ OthersKept(field)
              /\ ret'.err \in {"nil", "remove"}
              /\ ret'.err = "nil" =>
                     /\ field \in DOMAIN files
                     /\ files' = Without(files, field)
              /\ ret'.err = "remove" => files' = files
              /\ ~rmOk => ret'.err = "remove"]_vars

\* RemoveIndex("f") failed on a loaded index: the file is there, the table
\* is gone, the table of "g" is still registered
RemoveIndexDropsWitness ==
    /\ ret.op = "RemoveIndex" /\ ret.err = "remove"
    /\ "f" \in DOMAIN files /\ "f" \notin DOMAIN indexes
    /\ "g" \in DOMAIN indexes /\ Mappings(indexes["g"]) # {}

\* C13: Reindex(field) is RemoveIndex then AddIndex: when RemoveIndex fails
\* its error is returned and AddIndex is not attempted; when AddIndex fails
\* after RemoveIndex succeeded, Reindex returns that error and the field has
\* neither a table nor a file; the records and the counter are unchanged.
ReindexRemovesThenAdds ==
    [][\A field \in Fields, rmOk \in BOOLEAN :
          Reindex(field, rmOk) =>
              /\ store' = store
              /\ OthersKept(field)
              /\ IF Removed(files, field, rmOk)
                 THEN /\ ret'.err = "adding index failed"
                      /\ field \notin DOMAIN indexes'
                      /\ field \notin DOMAIN files'
                 ELSE /\ ret'.err = "remove"
                      /\ files' = files]_vars

\* Reindex("f") removed the index and AddIndex failed, with a record stored
ReindexRemovesThenAddsWitness ==
    /\ ret.op = "Reindex" /\ ret.err = "adding index failed"
    /\ "f" \notin DOMAIN indexes /\ "f" \notin DOMAIN files
    /\ "g" \in DOMAIN files
    /\ RecordKeys(store) # {}

\* C14: AddIndex(field) on a collection with stored records succeeds and
\* leaves a table registered for the field.
AddIndexBuildsTable ==
    [][\A field \in Fields :
          (AddIndex(field) /\ RecordKeys(store) # {}) =>
              /\ ret'.err = "nil"
              /\ field \in DOMAIN indexes']_vars

\* C15: QueryAll succeeds, returning the identifiers of the stored records,
\* as Query with the always-true condition does.
QueryAllReturnsAll ==
    [][(QueryAll \/ Query) => ret'.err = "nil"]_vars

\* C16: Update(id, value) for an identifier with no stored record fails and
\* creates no record.
UpdateAbsentFails ==
    [][\A id \in 1..MaxId, value \in Values, recOk \in BOOLEAN :
          (Update(id, value, recOk) /\ ~StoreHas(store, FmtD(id))) =>
              /\ ret'.err # "nil"
              /\ ~StoreHas(store', FmtD(id))]_vars

----------------------------------------------------------------------------
(* The path segments of a key.                                             *)

\* C17: for every key other than "_next_id" transformFunc returns two
\* segments of two characters, and for a key of four characters or more
\* they are the last two characters of the key, then the two before them;
\* for "_next_id" it returns no segment.
TwoSegments ==
    shard.done =>
        LET k == shard.key
            n == Len(shard.key)
        IN  IF k = NextIdKey
            THEN shard.segs = <<>>
            ELSE /\ Len(shard.segs) = 2
                 /\ \A i \in 1..2 : Len(shard.segs[i]) = 2
                 /\ n >= 4 => /\ shard.segs[1] = <<k[n - 1], k[n]>>
                              /\ shard.segs[2] = <<k[n - 3], k[n - 2]>>

\* The segments of a key of the greatest length, its two halves differing
TwoSegmentsWitness ==
    /\ shard.done
    /\ Len(shard.key) = MaxKeyLen
    /\ shard.segs[1] # shard.segs[2]

\* The key k of fewer than four characters, padded on the left with c
PadLeft(k, c) ==
    [i \in 1..4 |-> IF i <= 4 - Len(k) THEN c ELSE k[i - (4 - Len(k))]]

\* The key without its leading "0" characters
RECURSIVE StripZeros(_)
StripZeros(k) == IF k # <<>> /\ Head(k) = "0" THEN StripZeros(Tail(k)) ELSE k

\* The keys of fewer than four characters
ShortKeys == {k \in Keys : Len(k) < 4}

\* C18 as stated: a key shorter than four characters is padded on the left
\* with the space character before it is split, so the key "7" has the
\* segments " 7" and "  ".
PaddedWithSpace ==
    (shard.done /\ shard.key \in ShortKeys) =>
        LET data == PadLeft(shard.key, " ")
        IN  shard.segs = <<SubSeq(data, 3, 4), SubSeq(data, 1, 2)>>

\* C18: a key shorter than four characters is padded on the left with the
\* character "0" before it is split, so the key "7" has the segments "07"
\* and "00"; two short keys have the same segments exactly when they differ
\* in leading "0" characters only.
PaddedWithZero ==
    (shard.done /\ shard.key \in ShortKeys) =>
        LET data == PadLeft(shard.key, "0")
        IN  /\ shard.segs = <<SubSeq(data, 3, 4), SubSeq(data, 1, 2)>>
            /\ shard.key = <<"7">> => shard.segs = <<<<"0", "7">>, <<"0", "0">>>>
            /\ \A k \in ShortKeys :
                   transformFunc(k) = shard.segs
                       <=> StripZeros(k) = StripZeros(shard.key)

\* The segments of the key "7"
PaddedWithZeroWitness ==
    /\ shard.done
    /\ shard.key = <<"7">>
    /\ shard.segs = <<<<"0", "7">>, <<"0", "0">>>>

----------------------------------------------------------------------------
(* Records, indexes and the counter.                                       *)

\* C19: Update and Delete leave every index table and the counter as they
\* are, and Insert leaves every index table as it is, so the mapping of a
\* deleted record stays in its table.  ret'.op names the operation the step
\* returns from.
RecordOpsKeepIndexes ==
    [][/\ ret'.op \in {"Insert", "Update", "Delete"} => indexes' = indexes
       /\ ret'.op \in {"Update", "Delete"} => Counter(store') = Counter(store)]_vars

\* Record 1 was deleted and "f" still maps "x" to 1
RecordOpsKeepIndexesWitness ==
    /\ ret.op = "Delete" /\ ret.err = "nil"
    /\ 1 \in {ids[i] : i \in 1..Len(ids)}
    /\ ~StoreHas(store, FmtD(1))
    /\ "f" \in DOMAIN indexes
    /\ <<"x", 1>> \in Mappings(indexes["f"])

\* C20: with the writes of the counter succeeding and the writes of records
\* failing or not, the counter is between operations greater than every
\* identifier a successful Insert returned, and an Insert that fails at
\* serialization returns 0 and leaves the store as it is.
CounterAboveIds ==
    /\ [](\A i \in 1..Len(ids) : ids[i] < Counter(store))
    /\ [][\A recOk \in BOOLEAN :
             Insert(BadValue, TRUE, recOk, TRUE) =>
                 /\ ret'.id = 0
                 /\ ret'.err = "marshal"
                 /\ store' = store]_vars

\* An Insert failed at serialization after one Insert succeeded and one
\* was rolled back
CounterAboveIdsWitness ==
    /\ ret.op = "Insert" /\ ret.err = "marshal"
    /\ Len(ids) >= 1
    /\ rolled
    /\ Counter(store) > ids[Len(ids)]

====
